---- MODULE Spec2Model ----
(***************************************************************************)
(* Heart-rate consumers (hr-consumer-monitor.py, hr-consumer-drop.py,      *)
(* hr-consumer-stall.py) reading from a RabbitMQ queue with manual         *)
(* acknowledgment and prefetch 1, keeping bounded deques of the most       *)
(* recent readings and sending an e-mail alert when a trend predicate      *)
(* holds on a full deque.                                                  *)
(*                                                                         *)
(* Heart rates are floats in the source; here a reading is an integer      *)
(* number of half beats per minute (HalfBpm), so that a change of 0.5 bpm  *)
(* is representable and the comparisons against 15, 1 and 20 bpm are the   *)
(* source's comparisons.                                                   *)
(*                                                                         *)
(* Spec is one consumer program with its whole life cycle: connection,    *)
(* queue setup, callbacks, failures, interrupts and restarts, over a      *)
(* short run of messages.  SpecStream is the same program consuming a     *)
(* long stream of readings published one at a time, long enough for the   *)
(* 20-item deque to fill and evict.                                       *)
(***************************************************************************)
EXTENDS Integers, Sequences, FiniteSets, TLC

VARIABLES
    kind,            \* which consumer program runs: "monitor", "drop", "stall"
    pc,              \* position of the consumer process
    instance,        \* number of the running consumer process (1 = first run)
    exitcode,        \* -1 while running, else the process's exit status
    stop_cause,      \* what ended the process ("none" while it runs)
    closed,          \* number of connection.close() calls of this process
    prefetch_count,  \* channel prefetch limit (0 = unlimited, before basic_qos)
    queue,           \* messages ready in the consumer's queue, oldest first
    unacked,         \* messages delivered to the consumer and not yet acked
    drop_deque,      \* deque(maxlen=5)
    stall_deque,     \* deque(maxlen=20)
    elevated_deque,  \* deque(maxlen=4)
    emitted,         \* detectors that called the alert sender for the current message
    last_send,       \* outcome of the last alert-sender call for the current message
    steps,           \* callback steps already executed for the current message
    acked,           \* ids of the messages acknowledged so far
    hist,            \* the valid readings appended by this process, in arrival order
    pending_at_exit, \* ids unacknowledged and ids ready when the last process ended
    npub,            \* number of messages published so far
    lastv,           \* value of the last valid reading published (0 = none yet)
    changes,         \* number of times a published value differed from the previous one
    nbad,            \* number of malformed messages published
    calls,           \* (subject, body) of the sender calls made for the current message
    ops,             \* broker operations this process has performed on its channel
    subscribed,      \* the consumer's basic_consume subscription exists at the broker
    producer_up,     \* hr-producer.py has connected and declared the queues
    peer             \* another consumer instance running on its own queue

vars == <<kind, pc, instance, exitcode, stop_cause, closed, prefetch_count, queue, unacked,
          drop_deque, stall_deque, elevated_deque, emitted, last_send, steps,
          acked, hist, pending_at_exit, npub, lastv, changes, nbad,
          calls, ops, subscribed, producer_up, peer>>

windows == <<drop_deque, stall_deque, elevated_deque>>
producer == <<npub, lastv, changes, nbad>>
callback == <<emitted, last_send, steps, calls>>
broker == <<ops, subscribed, producer_up, peer>>

----------------------------------------------------------------------------
(* Bounds of the model *)

\* messages published in a run of Spec, where the process may end and restart
MaxMsgs == 5
\* messages published in a run of SpecStream, where the process keeps consuming
MaxStream == 21
\* times a published reading differs from the one published before it
MaxChanges == 1
MaxBad == 1
MaxQueue == 1
MaxRestarts == 1
MaxDeviations == 1
TailLen == 5

----------------------------------------------------------------------------
(* Program constants *)

drop_maxlen == 5
stall_maxlen == 20
elevated_maxlen == 4

Kinds == {"monitor", "drop", "stall"}

\* the deques a consumer program declares and appends to
Detectors(k) == IF k = "monitor" THEN {"drop", "stall", "elevated"} ELSE {k}

\* a float number of beats per minute, as a count of half beats
HalfBpm(b) == 2 * b

\* readings used as inputs: 85, 86, 100 and 105 bpm
Values == {HalfBpm(85), HalfBpm(86), HalfBpm(100), HalfBpm(105)}

\* readings published in the runs with restarts: 85 and 105 bpm
SampleValues == {HalfBpm(85), HalfBpm(105)}

----------------------------------------------------------------------------
(* Message payloads: the body after decode().split(",") is a sequence of  *)
(* fields; a field either parses as a float or does not.                  *)

TsField == [num |-> FALSE, val |-> 0]
NumField(v) == [num |-> TRUE, val |-> v]
JunkField == [num |-> FALSE, val |-> 1]

\* f"{time_stamp}, {heart_rate_value}" split at the comma
GoodBody(v) == <<TsField, NumField(v)>>

\* payloads with a missing second field, or a non-numeric second field
Malformed == { <<TsField>>, <<TsField, JunkField>> }

\* variant: the second field is used without the float() conversion check
ParseError_NoFloatCheck(body) ==
    IF Len(body) < 2 THEN "IndexError" ELSE "none"

\* message[1] raises IndexError, float() raises ValueError
ParseError(body) ==
    IF Len(body) < 2 THEN "IndexError"
    ELSE IF ~ body[2].num THEN "ValueError"
    ELSE "none"

heart_rate(body) == body[2].val

----------------------------------------------------------------------------
(* collections.deque(maxlen=n).append *)

\* variant: appendleft, the newest reading becomes the first item
DequeAppend_Left(d, x, maxlen) ==
    IF Len(d) = maxlen THEN <<x>> \o SubSeq(d, 1, maxlen - 1) ELSE <<x>> \o d

\* variant: a full deque rejects the new item instead of evicting the oldest
DequeAppend_RejectNew(d, x, maxlen) ==
    IF Len(d) = maxlen THEN d ELSE Append(d, x)

DequeAppend(d, x, maxlen) ==
    IF Len(d) = maxlen THEN Append(Tail(d), x) ELSE Append(d, x)

SeqMax(d) == CHOOSE m \in {d[i] : i \in 1..Len(d)} : \A i \in 1..Len(d) : d[i] <= m
SeqMin(d) == CHOOSE m \in {d[i] : i \in 1..Len(d)} : \A i \in 1..Len(d) : m <= d[i]

\* variant: the change is computed without waiting for a full deque
DropPredicate_NoLen(d) ==
    d[Len(d)] - d[1] <= HalfBpm(-15)

\* variant: strict comparison
DropPredicate_Strict(d) ==
    /\ Len(d) = drop_maxlen
    /\ d[Len(d)] - d[1] < HalfBpm(-15)

DropPredicate(d) ==
    /\ Len(d) = drop_maxlen
    /\ d[Len(d)] - d[1] <= HalfBpm(-15)

\* variant: the newest reading is left out of the comparison
StallPredicate_SkipNewest(d) ==
    /\ Len(d) = stall_maxlen
    /\ \A i, j \in 1..(Len(d) - 1) : d[i] - d[j] < HalfBpm(1)

\* variant: only the oldest and the newest reading are compared
StallPredicate_EndsOnly(d) ==
    /\ Len(d) = stall_maxlen
    /\ d[Len(d)] - d[1] < HalfBpm(1)
    /\ d[1] - d[Len(d)] < HalfBpm(1)

\* variant: inclusive comparison
StallPredicate_Inclusive(d) ==
    /\ Len(d) = stall_maxlen
    /\ SeqMax(d) - SeqMin(d) <= HalfBpm(1)

StallPredicate(d) ==
    /\ Len(d) = stall_maxlen
    /\ SeqMax(d) - SeqMin(d) < HalfBpm(1)

\* variant: a change of exactly +20 bpm does not count
ElevatedPredicate_Strict(d) ==
    /\ Len(d) = elevated_maxlen
    /\ d[Len(d)] - d[1] > HalfBpm(20)

ElevatedPredicate(d) ==
    /\ Len(d) = elevated_maxlen
    /\ d[Len(d)] - d[1] >= HalfBpm(20)

----------------------------------------------------------------------------
(* create_and_send_email_alert: the stage at which the call fails.        *)
(* "config" is the open/tomllib.load/key lookup before the try block;     *)
(* "connect" is the SMTP/SMTP_SSL constructor, after which `server` is    *)
(* unbound in the finally block; "quit" is server.quit() itself raising.  *)

FailPoints == {"none", "config", "connect", "starttls", "login", "send", "quit"}

NoSend == [called |-> FALSE, sent |-> FALSE, teardown |-> FALSE, raised |-> FALSE]

SenderResult(f) ==
    [called   |-> TRUE,
     sent     |-> f \in {"none", "quit"},
     teardown |-> f \notin {"config", "connect"},
     raised   |-> f \in {"config", "connect", "quit"}]

----------------------------------------------------------------------------
(* The alerts: the (subject, body) pair each detector hands to the sender. *)

drop_subject == "HEART RATE DROP ALERT"
drop_content == "HEART RATE DROP ALERT: Heart rate has decreased by 15 bpm or more in the last 2.5 minutes."

\* variant: the stall subject is a copy of the drop subject
stall_subject_Copied == "HEART RATE DROP ALERT"

stall_subject == "HEART RATE STALL ALERT"
stall_content == "HEART RATE STALL ALERT: Heart rate change is less than 1 bpm in the last 10 minutes."

elevated_subject == "HEART RATE ELEVATED ALERT"
elevated_content == "HEART RATE ELEVATED ALERT: Heart rate has increased by 20 bpm or more in the last 2 minutes."

\* the arguments of create_and_send_email_alert in the block of detector d
AlertArgs(d) ==
    CASE d = "drop"     -> [subject |-> drop_subject, body |-> drop_content]
      [] d = "stall"    -> [subject |-> stall_subject, body |-> stall_content]
      [] d = "elevated" -> [subject |-> elevated_subject, body |-> elevated_content]

----------------------------------------------------------------------------
(* The broker's queues *)

heart_rate_monitor_queue == "01-heart-rate-monitor"
heart_rate_drop_queue == "02-heart-rate-drop"
heart_rate_stall_queue == "03-heart-rate-stall"
heart_rate_elevated_queue == "04-heart-rate-elevated"

AllQueues == {heart_rate_monitor_queue, heart_rate_drop_queue, heart_rate_stall_queue,
              heart_rate_elevated_queue}

\* the queue a consumer of kind k passes to basic_consume
ConsumedQueue(k) ==
    CASE k = "monitor" -> heart_rate_monitor_queue
      [] k = "drop"    -> heart_rate_drop_queue
      [] k = "stall"   -> heart_rate_stall_queue
      [] OTHER         -> "none"

\* the queues main of a consumer of kind k passes to queue_delete and queue_declare
ClearedQueues(k) == IF k = "monitor" THEN AllQueues ELSE {ConsumedQueue(k)}

\* the prefetch count of a channel on which basic_qos was not called: no limit
NoPrefetchLimit == 0

\* variant: channel.basic_qos is not called
basic_qos_prefetch_count_Unlimited == NoPrefetchLimit

\* channel.basic_qos(prefetch_count=1)
basic_qos_prefetch_count == 1

NoPeer == [kind |-> "none", subscribed |-> FALSE, ready |-> 0]

\* queue_delete of the queues qs as seen by the consumer p of another queue:
\* the broker drops the queue's messages and cancels its consumers
QueueDelete(p, qs) ==
    IF ConsumedQueue(p.kind) \in qs
    THEN [p EXCEPT !.subscribed = FALSE, !.ready = 0]
    ELSE p

SetupOps == {"channel", "queue_delete", "queue_declare", "basic_qos", "basic_consume",
             "start_consuming"}

----------------------------------------------------------------------------
(* The single-pattern consumers as functions of the readings received     *)
(* since process start: the deque after the appends, then the check.      *)

RECURSIVE Feed(_, _)
Feed(stream, maxlen) ==
    IF stream = <<>>
    THEN <<>>
    ELSE DequeAppend(Feed(SubSeq(stream, 1, Len(stream) - 1), maxlen),
                     stream[Len(stream)], maxlen)

\* drop_callback alerts on the last reading of the stream
drop_callback(stream) == DropPredicate(Feed(stream, drop_maxlen))

\* stall_callback alerts on the last reading of the stream
stall_callback(stream) == StallPredicate(Feed(stream, stall_maxlen))

----------------------------------------------------------------------------
(* Control flow of the callbacks: the statement that follows each step.   *)

\* variant: the acknowledgment directly follows the appends
AfterAppend_AckFirst(k) == "ack"

AfterAppend(k) == IF k = "stall" THEN "stall" ELSE "drop"
\* variant: the combined monitor goes from the drop check to the elevated check
AfterDrop_SkipStall(k) == IF k = "monitor" THEN "elevated" ELSE "ack"

AfterDrop(k) == IF k = "monitor" THEN "stall" ELSE "ack"
AfterStall(k) == IF k = "monitor" THEN "elevated" ELSE "ack"
AfterElevated(k) == "ack"

InCallback == {"parse", "drop", "stall", "elevated", "ack"}

----------------------------------------------------------------------------

InitProcess ==
    /\ kind \in Kinds
    /\ pc = "start"
    /\ instance = 1
    /\ exitcode = -1
    /\ stop_cause = "none"
    /\ closed = 0
    /\ prefetch_count = NoPrefetchLimit
    /\ queue = <<>>
    /\ unacked = <<>>
    /\ drop_deque = <<>>
    /\ stall_deque = <<>>
    /\ elevated_deque = <<>>
    /\ emitted = {}
    /\ last_send = NoSend
    /\ steps = {}
    /\ acked = {}
    /\ hist = <<>>
    /\ pending_at_exit = [unacked |-> {}, ready |-> {}]
    /\ npub = 0
    /\ lastv = 0
    /\ changes = 0
    /\ nbad = 0
    /\ calls = <<>>
    /\ ops = {}
    /\ subscribed = FALSE

\* the producer is running, no other consumer is
Init ==
    /\ InitProcess
    /\ producer_up = TRUE
    /\ peer = NoPeer

\* the producer may not have been started yet, and a consumer of another kind
\* is subscribed to its own queue
InitStartup ==
    /\ InitProcess
    /\ producer_up \in BOOLEAN
    /\ peer \in {[kind |-> k, subscribed |-> TRUE, ready |-> n] :
                     k \in Kinds \ {kind}, n \in 0..MaxQueue}

Ids(s) == {s[i].id : i \in 1..Len(s)}

\* streams of stall_maxlen readings that are constant but for at most
\* MaxDeviations of them, in any positions
DeviatingStreams ==
    {[k \in 1..stall_maxlen |->
         IF \E i \in 1..MaxDeviations : at[i] = k
         THEN to[CHOOSE i \in 1..MaxDeviations : at[i] = k]
         ELSE base] :
       base \in Values,
       at \in [1..MaxDeviations -> 1..stall_maxlen],
       to \in [1..MaxDeviations -> Values]}

\* the consumer has received the readings of the stream w one by one and has
\* just appended the last of them
AfterStream(w) ==
    /\ kind \in Kinds
    /\ pc = AfterAppend(kind)
    /\ instance = 1
    /\ exitcode = -1
    /\ stop_cause = "none"
    /\ closed = 0
    /\ prefetch_count = basic_qos_prefetch_count
    /\ queue = <<>>
    /\ unacked = <<[id |-> Len(w), body |-> GoodBody(w[Len(w)])]>>
    /\ drop_deque = IF "drop" \in Detectors(kind)
                    THEN SubSeq(w, Len(w) - drop_maxlen + 1, Len(w)) ELSE <<>>
    /\ stall_deque = IF "stall" \in Detectors(kind)
                     THEN SubSeq(w, Len(w) - stall_maxlen + 1, Len(w)) ELSE <<>>
    /\ elevated_deque = IF "elevated" \in Detectors(kind)
                        THEN SubSeq(w, Len(w) - elevated_maxlen + 1, Len(w)) ELSE <<>>
    /\ emitted = {}
    /\ last_send = NoSend
    /\ steps = {"append"}
    /\ acked = 1..(Len(w) - 1)
    /\ hist = w
    /\ pending_at_exit = [unacked |-> {}, ready |-> {}]
    /\ npub = Len(w)
    /\ lastv = w[Len(w)]
    /\ changes = Cardinality({i \in 1..(Len(w) - 1) : w[i] /= w[i + 1]})
    /\ nbad = 0
    /\ calls = <<>>
    /\ ops = SetupOps
    /\ subscribed = TRUE
    /\ producer_up = TRUE
    /\ peer = NoPeer

InitOrder == \E w \in DeviatingStreams : AfterStream(w)

\* readings of the streams that end in a burst: 85, 86, 100, 105 and 120 bpm
BurstValues == Values \cup {HalfBpm(120)}

\* streams of stall_maxlen readings that are constant up to their last
\* TailLen readings, which are arbitrary
TailStreams ==
    {[k \in 1..stall_maxlen |->
         IF k <= stall_maxlen - TailLen THEN base ELSE tail[k - (stall_maxlen - TailLen)]] :
       base \in BurstValues,
       tail \in [1..TailLen -> BurstValues]}

\* the combined monitor has just appended the last reading of such a stream
InitTail ==
    \E w \in TailStreams :
       /\ AfterStream(w)
       /\ kind = "monitor"

----------------------------------------------------------------------------
(* The publisher: basic_publish of one message to the consumer's queue.   *)

\* the published reading differs from the previous one at most MaxChanges times
MayPublish(v) == lastv = 0 \/ v = lastv \/ changes < MaxChanges

Publish(v) ==
    /\ producer_up
    /\ queue' = Append(queue, [id |-> npub + 1, body |-> GoodBody(v)])
    /\ npub' = npub + 1
    /\ lastv' = v
    /\ changes' = IF lastv = 0 \/ v = lastv THEN changes ELSE changes + 1
    /\ UNCHANGED <<broker, kind, pc, instance, exitcode, stop_cause, closed, prefetch_count,
                   unacked, windows, callback, acked, hist, pending_at_exit, nbad>>

\* a reading is published while earlier messages may still wait in the queue
PublishReading(v) ==
    /\ npub < MaxMsgs
    /\ Len(queue) < MaxQueue
    /\ MayPublish(v)
    /\ Publish(v)

\* a reading is published after time.sleep(30), when the consumer has long
\* finished with the previous one
PublishPaced(v) ==
    /\ npub < MaxStream
    /\ queue = <<>>
    /\ unacked = <<>>
    /\ MayPublish(v)
    /\ Publish(v)

\* hr-producer.py starts: connection, channel, queue_delete and queue_declare
\* of the four queues; no message has been published before
ProducerStart ==
    /\ ~producer_up
    /\ producer_up' = TRUE
    /\ queue' = <<>>
    /\ subscribed' = FALSE
    /\ peer' = QueueDelete(peer, AllQueues)
    /\ UNCHANGED <<ops, kind, pc, instance, exitcode, stop_cause, closed, prefetch_count,
                   unacked, windows, callback, acked, hist, pending_at_exit, producer>>

PublishMalformed(b) ==
    /\ npub < MaxMsgs
    /\ Len(queue) < MaxQueue
    /\ nbad < MaxBad
    /\ producer_up
    /\ queue' = Append(queue, [id |-> npub + 1, body |-> b])
    /\ npub' = npub + 1
    /\ nbad' = nbad + 1
    /\ UNCHANGED <<broker, kind, pc, instance, exitcode, stop_cause, closed, prefetch_count,
                   unacked, windows, callback, acked, hist, pending_at_exit, lastv, changes>>

----------------------------------------------------------------------------
(* The consumer process *)

\* the process ends: sys.exit(code), with or without connection.close();
\* the broker returns the unacknowledged message to the head of the queue
Terminate(code, closing, cause) ==
    /\ pc' = "stopped"
    /\ exitcode' = code
    /\ stop_cause' = cause
    /\ closed' = IF closing THEN closed + 1 ELSE closed
    /\ queue' = unacked \o queue
    /\ unacked' = <<>>
    /\ pending_at_exit' = [unacked |-> Ids(unacked), ready |-> Ids(queue)]

\* pika.BlockingConnection(...) succeeds
Connect ==
    /\ pc = "start"
    /\ pc' = "connected"
    /\ UNCHANGED <<broker, kind, instance, exitcode, stop_cause, closed, prefetch_count, queue, unacked,
                   windows, callback, acked, hist, pending_at_exit, producer>>

\* variant: the connection error is reported but main goes on to the second
\* try block
ConnectFail_Proceeds ==
    /\ pc = "start"
    /\ pc' = "connected"
    /\ stop_cause' = "connect"
    /\ UNCHANGED <<broker, kind, instance, exitcode, closed, prefetch_count, queue, unacked,
                   windows, callback, acked, hist, pending_at_exit, producer>>

\* pika.BlockingConnection(...) raises: sys.exit(1) before the second try block
ConnectFail ==
    /\ pc = "start"
    /\ Terminate(1, FALSE, "connect")
    /\ UNCHANGED <<broker, kind, instance, prefetch_count, windows, callback, acked, hist,
                   producer>>

\* channel(), queue_delete, queue_declare, basic_qos, basic_consume, start_consuming
Setup ==
    /\ pc = "connected"
    /\ pc' = "consuming"
    /\ queue' = <<>>
    /\ peer' = QueueDelete(peer, ClearedQueues(kind))
    /\ prefetch_count' = basic_qos_prefetch_count
    /\ subscribed' = TRUE
    /\ ops' = SetupOps
    /\ UNCHANGED <<producer_up, kind, instance, exitcode, stop_cause, closed, unacked, windows,
                   callback, acked, hist, pending_at_exit, producer>>

\* an exception raised by channel(), queue_delete, queue_declare, basic_qos or
\* basic_consume: sys.exit(1), then connection.close() in the finally block
SetupError(deleted) ==
    /\ pc = "connected"
    /\ pc' = "stopped"
    /\ exitcode' = 1
    /\ stop_cause' = "setup"
    /\ closed' = closed + 1
    /\ queue' = IF deleted THEN <<>> ELSE queue
    /\ peer' = IF deleted THEN QueueDelete(peer, ClearedQueues(kind)) ELSE peer
    /\ ops' = IF deleted THEN {"channel", "queue_delete"} ELSE {}
    /\ pending_at_exit' = [unacked |-> {}, ready |-> Ids(queue')]
    /\ UNCHANGED <<subscribed, producer_up, kind, instance, prefetch_count, unacked, windows,
                   callback, acked, hist, producer>>

\* the broker sends the oldest ready message to the subscribed consumer;
\* withheld while prefetch_count messages are unacknowledged
Deliver ==
    /\ pc \in {"consuming"} \cup InCallback
    /\ subscribed
    /\ queue /= <<>>
    /\ prefetch_count = NoPrefetchLimit \/ Len(unacked) < prefetch_count
    /\ unacked' = Append(unacked, Head(queue))
    /\ queue' = Tail(queue)
    /\ UNCHANGED <<broker, kind, pc, instance, exitcode, stop_cause, closed, prefetch_count,
                   windows, callback, acked, hist, pending_at_exit, producer>>

\* start_consuming() calls the callback with the oldest delivered message
Dispatch ==
    /\ pc = "consuming"
    /\ unacked /= <<>>
    /\ pc' = "parse"
    /\ emitted' = {}
    /\ last_send' = NoSend
    /\ steps' = {}
    /\ calls' = <<>>
    /\ UNCHANGED <<broker, kind, instance, exitcode, stop_cause, closed, prefetch_count, queue,
                   unacked, windows, acked, hist, pending_at_exit, producer>>

\* the message the callback is working on
cur == unacked[1]

\* body.decode().split(","), float(message[1]) and the appends to the deques;
\* an exception of the parse leaves the callback and start_consuming() and is
\* caught by `except Exception` of main: sys.exit(1), then connection.close()
ParseAppend ==
    /\ pc = "parse"
    /\ IF ParseError(cur.body) /= "none"
       THEN /\ Terminate(1, TRUE, ParseError(cur.body))
            /\ UNCHANGED <<windows, hist, steps>>
       ELSE /\ drop_deque' = IF "drop" \in Detectors(kind)
                             THEN DequeAppend(drop_deque, heart_rate(cur.body), drop_maxlen)
                             ELSE drop_deque
            /\ stall_deque' = IF "stall" \in Detectors(kind)
                              THEN DequeAppend(stall_deque, heart_rate(cur.body), stall_maxlen)
                              ELSE stall_deque
            /\ elevated_deque' = IF "elevated" \in Detectors(kind)
                                 THEN DequeAppend(elevated_deque, heart_rate(cur.body),
                                                  elevated_maxlen)
                                 ELSE elevated_deque
            /\ hist' = Append(hist, heart_rate(cur.body))
            /\ steps' = steps \cup {"append"}
            /\ pc' = AfterAppend(kind)
            /\ UNCHANGED <<exitcode, stop_cause, closed, queue, unacked, pending_at_exit>>
    /\ UNCHANGED <<broker, kind, instance, prefetch_count, emitted, last_send, calls, acked,
                   producer>>

\* variant: the deques are emptied once an alert has been sent
Check_ClearOnAlert(d, fires, next) ==
    /\ pc = d
    /\ IF fires
       THEN \E f \in FailPoints :
              /\ emitted' = emitted \cup {d}
              /\ calls' = Append(calls, AlertArgs(d))
              /\ last_send' = SenderResult(f)
              /\ drop_deque' = <<>>
              /\ stall_deque' = <<>>
              /\ elevated_deque' = <<>>
              /\ IF SenderResult(f).raised
                 THEN /\ Terminate(1, TRUE, "sender")
                      /\ UNCHANGED steps
                 ELSE /\ pc' = next
                      /\ steps' = steps \cup {d}
                      /\ UNCHANGED <<exitcode, stop_cause, closed, queue, unacked,
                                     pending_at_exit>>
       ELSE /\ pc' = next
            /\ steps' = steps \cup {d}
            /\ UNCHANGED <<emitted, calls, last_send, exitcode, stop_cause, closed, queue,
                           unacked, pending_at_exit, windows>>
    /\ UNCHANGED <<broker, kind, instance, prefetch_count, acked, hist, producer>>

\* one `if len(deque) == deque.maxlen: ... create_and_send_email_alert(...)`
\* block of a callback; an exception leaving the sender ends the process as
\* in ParseAppend
Check(d, fires, next) ==
    /\ pc = d
    /\ IF fires
       THEN \E f \in FailPoints :
              /\ emitted' = emitted \cup {d}
              /\ calls' = Append(calls, AlertArgs(d))
              /\ last_send' = SenderResult(f)
              /\ IF SenderResult(f).raised
                 THEN /\ Terminate(1, TRUE, "sender")
                      /\ UNCHANGED steps
                 ELSE /\ pc' = next
                      /\ steps' = steps \cup {d}
                      /\ UNCHANGED <<exitcode, stop_cause, closed, queue, unacked, pending_at_exit>>
       ELSE /\ pc' = next
            /\ steps' = steps \cup {d}
            /\ UNCHANGED <<emitted, calls, last_send, exitcode, stop_cause, closed, queue, unacked,
                           pending_at_exit>>
    /\ UNCHANGED <<broker, kind, instance, prefetch_count, windows, acked, hist, producer>>

CheckDrop == Check("drop", DropPredicate(drop_deque), AfterDrop(kind))

CheckStall == Check("stall", StallPredicate(stall_deque), AfterStall(kind))

CheckElevated == Check("elevated", ElevatedPredicate(elevated_deque), AfterElevated(kind))

\* ch.basic_ack(delivery_tag=method.delivery_tag), the callback returns
Ack ==
    /\ pc = "ack"
    /\ acked' = acked \cup {cur.id}
    /\ unacked' = Tail(unacked)
    /\ pc' = "consuming"
    /\ UNCHANGED <<broker, kind, instance, exitcode, stop_cause, closed, prefetch_count, queue, windows,
                   callback, hist, pending_at_exit, producer>>

\* variant: main has no finally block, the interrupt handler only exits
Interrupt_NoClose ==
    /\ pc \in {"connected", "consuming"} \cup InCallback
    /\ Terminate(0, FALSE, "KeyboardInterrupt")
    /\ UNCHANGED <<broker, kind, instance, prefetch_count, windows, callback, acked, hist,
                   producer>>

\* KeyboardInterrupt inside the second try block of main: sys.exit(0), then
\* connection.close() in the finally block
Interrupt ==
    /\ pc \in {"connected", "consuming"} \cup InCallback
    /\ Terminate(0, TRUE, "KeyboardInterrupt")
    /\ UNCHANGED <<broker, kind, instance, prefetch_count, windows, callback, acked, hist,
                   producer>>

\* the broker has cancelled the subscription because the queue was deleted:
\* start_consuming() returns when no consumer is left, main leaves the try
\* block, calls connection.close() in the finally block and returns
Cancelled ==
    /\ pc = "consuming"
    /\ ops = SetupOps
    /\ ~ subscribed
    /\ unacked = <<>>
    /\ Terminate(0, TRUE, "cancelled")
    /\ UNCHANGED <<broker, kind, instance, prefetch_count, windows, callback, acked, hist,
                   producer>>

\* the process is killed: no handler runs, the broker sees the connection drop
Crash ==
    /\ pc \in {"connected", "consuming"} \cup InCallback
    /\ Terminate(137, FALSE, "killed")
    /\ UNCHANGED <<broker, kind, instance, prefetch_count, windows, callback, acked, hist,
                   producer>>

\* the same program is started again: module-level state is constructed anew
Restart ==
    /\ pc = "stopped"
    /\ instance <= MaxRestarts
    /\ instance' = instance + 1
    /\ pc' = "start"
    /\ exitcode' = -1
    /\ stop_cause' = "none"
    /\ closed' = 0
    /\ prefetch_count' = NoPrefetchLimit
    /\ drop_deque' = <<>>
    /\ stall_deque' = <<>>
    /\ elevated_deque' = <<>>
    /\ emitted' = {}
    /\ last_send' = NoSend
    /\ steps' = {}
    /\ hist' = <<>>
    /\ calls' = <<>>
    /\ ops' = {}
    /\ subscribed' = FALSE
    /\ UNCHANGED <<producer_up, peer, kind, queue, unacked, acked, pending_at_exit, producer>>

Next ==
    \/ \E v \in SampleValues : PublishReading(v)
    \/ \E b \in Malformed : PublishMalformed(b)
    \/ Connect
    \/ ConnectFail
    \/ Setup
    \/ \E deleted \in BOOLEAN : SetupError(deleted)
    \/ Deliver
    \/ Dispatch
    \/ ParseAppend
    \/ CheckDrop
    \/ CheckStall
    \/ CheckElevated
    \/ Ack
    \/ Interrupt
    \/ Crash
    \/ Restart

Spec == Init /\ [][Next]_vars

\* a consumer that connects and keeps consuming a long stream of valid readings,
\* published one at a time
NextStream ==
    \/ \E v \in Values : PublishPaced(v)
    \/ Connect
    \/ Setup
    \/ Deliver
    \/ Dispatch
    \/ ParseAppend
    \/ CheckDrop
    \/ CheckStall
    \/ CheckElevated
    \/ Ack

SpecStream == Init /\ [][NextStream]_vars

\* the producer and the consumers are started in any order
NextStartup ==
    \/ ProducerStart
    \/ Cancelled
    \/ \E v \in SampleValues : PublishReading(v)
    \/ Connect
    \/ Setup
    \/ Deliver
    \/ Dispatch
    \/ ParseAppend
    \/ CheckDrop
    \/ CheckStall
    \/ CheckElevated
    \/ Ack

SpecStartup == InitStartup /\ [][NextStartup]_vars

\* the checks of one callback execution on windows of every composition
NextOrder ==
    \/ CheckDrop
    \/ CheckStall
    \/ CheckElevated
    \/ Ack

SpecOrder == InitOrder /\ [][NextOrder]_vars

\* the checks of one callback execution of the combined monitor at the end of
\* a burst
SpecTail == InitTail /\ [][NextOrder]_vars

----------------------------------------------------------------------------
(* Properties *)

Window(d) ==
    CASE d = "drop" -> drop_deque
      [] d = "stall" -> stall_deque
      [] OTHER -> elevated_deque

Maxlen(d) ==
    CASE d = "drop" -> 5
      [] d = "stall" -> 20
      [] OTHER -> 4

LastN(s, n) == SubSeq(s, Len(s) - n + 1, Len(s))

Smaller(a, b) == IF a < b THEN a ELSE b

ParseErrors == {"IndexError", "ValueError"}

\* C1: in every consumer the acknowledgment of a message is the last step of
\* its processing: when the message is acknowledged its value is the newest
\* item of every configured deque, every configured check has been executed,
\* and every alert it triggered was handed to the sender and the sender has
\* returned; and no step of a callback works on an acknowledged message.
AckIsLastStep ==
    [][ /\ \A m \in acked' \ acked :
              /\ unacked /= <<>>
              /\ m = cur.id
              /\ steps = {"append"} \cup Detectors(kind)
              /\ \A d \in Detectors(kind) :
                     /\ Window(d) /= <<>>
                     /\ Window(d)[Len(Window(d))] = cur.body[2].val
              /\ emitted /= {} => (last_send.called /\ ~ last_send.raised)
        /\ (steps' /= steps /\ unacked' /= <<>>) => unacked'[1].id \notin acked'
      ]_vars

\* an acknowledged message that had triggered an alert, in the combined monitor
AckAfterAlert ==
    /\ kind = "monitor"
    /\ pc = "consuming"
    /\ acked /= {}
    /\ emitted /= {}
    /\ steps = {"append", "drop", "stall", "elevated"}

\* C2: when a consumer process ended with a delivered, unacknowledged message,
\* that message and every message that was waiting in the queue are ready, in
\* flight or acknowledged once the next consumer process is consuming.
NoReadingLostAcrossRestart ==
    (instance > 1 /\ pc \in {"consuming"} \cup InCallback /\ pending_at_exit.unacked /= {})
        => (pending_at_exit.unacked \cup pending_at_exit.ready)
               \subseteq (Ids(queue) \cup Ids(unacked) \cup acked)

\* C3: a payload that cannot be parsed is a recovered per-message error: it
\* never ends the consumer process.
MalformedIsRecovered ==
    stop_cause \notin ParseErrors

\* C4: handling a message whose payload fails to parse changes no deque and
\* emits no alert.
MalformedLeavesWindowsUnchanged ==
    [][ (pc = "parse" /\ cur.body \in Malformed)
            => (windows' = windows /\ emitted' = {}) ]_vars

\* a parse failure met by a process whose deques already hold readings
MalformedAfterReadings ==
    /\ stop_cause \in ParseErrors
    /\ drop_deque /= <<>>
    /\ hist = drop_deque

\* C5: a failure of the alert sender, at whatever stage, never ends the
\* consumer process.
AlertFailureNeverStopsConsumer ==
    stop_cause /= "sender"

\* C6: a call of the alert sender, successful or not, changes no deque.
AlertSendLeavesWindowsUnchanged ==
    [][ (emitted' /= emitted /\ emitted' /= {}) => windows' = windows ]_vars

\* a failed send that was caught, after which the message was acknowledged
FailedSendThenAck ==
    /\ pc = "consuming"
    /\ last_send.called
    /\ ~ last_send.sent
    /\ ~ last_send.raised
    /\ acked /= {}

\* C7: a deque never holds more than its capacity and always equals the most
\* recent min(n, capacity) readings in arrival order; a push on a full deque
\* removes exactly its oldest item, and a full deque stays full.
WindowsHoldMostRecent ==
    \A d \in Detectors(kind) :
        /\ Len(Window(d)) <= Maxlen(d)
        /\ Window(d) = LastN(hist, Smaller(Len(hist), Maxlen(d)))

WindowIsRing ==
    [][ /\ WindowsHoldMostRecent'
        /\ \A d \in Detectors(kind) :
              Len(Window(d)) = Maxlen(d)
                  => /\ Len(Window(d)') = Maxlen(d)
                     /\ hist' /= hist
                           => Window(d)' = Append(Tail(Window(d)), hist'[Len(hist')])
      ]_vars

\* the 20-item deque has evicted its oldest reading
StallWindowEvicted ==
    /\ Len(hist) > 20
    /\ Len(stall_deque) = 20
    /\ hist[1] /= hist[Len(hist)]

\* C8: no alert is emitted for a reading while fewer readings than the
\* detector's capacity have arrived.
NoAlertBeforeFull ==
    \A d \in emitted : Len(hist) >= Maxlen(d)

\* the fourth reading is 15 bpm below the first and the drop check is silent
FourReadingsNoDropAlert ==
    /\ Len(hist) = 4
    /\ hist[4] - hist[1] <= HalfBpm(-15)
    /\ "drop" \in steps
    /\ emitted = {}

\* C9: once the drop check has run for a reading, a drop alert was emitted
\* for it if and only if the drop deque holds 5 readings and the newest minus
\* the oldest is at most -15 bpm.
DropAlertIff ==
    ("drop" \in steps \/ "drop" \in emitted)
        => ("drop" \in emitted
               <=> (Len(drop_deque) = 5 /\ drop_deque[5] - drop_deque[1] <= HalfBpm(-15)))

\* a drop alert on a change of exactly -15 bpm
DropAlertAtBoundary ==
    /\ "drop" \in emitted
    /\ Len(drop_deque) = 5
    /\ drop_deque[5] - drop_deque[1] = HalfBpm(-15)

\* C10: once the stall check has run for a reading, a stall alert was emitted
\* for it if and only if the stall deque holds 20 readings and no two of them
\* differ by 1 bpm or more.
StallAlertIff ==
    ("stall" \in steps \/ "stall" \in emitted)
        => ("stall" \in emitted
               <=> (/\ Len(stall_deque) = 20
                    /\ \A i, j \in 1..Len(stall_deque) :
                           stall_deque[i] - stall_deque[j] < HalfBpm(1)))

\* a stall alert for the 21st reading, after the deque has evicted a reading
StallAlertAfterEviction ==
    /\ "stall" \in emitted
    /\ Len(stall_deque) = 20
    /\ Len(hist) = 21

\* C11: in the combined monitor, once the elevated check has run for a reading,
\* an elevated alert was emitted for it if and only if the elevated deque holds
\* exactly 4 readings and its newest reading exceeds its oldest by 20 bpm or
\* more.
ElevatedAlertIff ==
    ("elevated" \in steps \/ "elevated" \in emitted)
        => ("elevated" \in emitted
               <=> (/\ Len(elevated_deque) = 4
                    /\ elevated_deque[4] - elevated_deque[1] >= HalfBpm(20)))

\* an elevated alert on a change of exactly +20 bpm
ElevatedAlertAtBoundary ==
    /\ kind = "monitor"
    /\ "elevated" \in emitted
    /\ Len(elevated_deque) = 4
    /\ elevated_deque[4] - elevated_deque[1] = HalfBpm(20)

\* the condition under which the specification lets detector d alert
Qualifies(d) ==
    CASE d = "drop"     -> /\ Len(drop_deque) = 5
                           /\ drop_deque[5] - drop_deque[1] <= HalfBpm(-15)
      [] d = "stall"    -> /\ Len(stall_deque) = 20
                           /\ \A i, j \in 1..Len(stall_deque) :
                                 stall_deque[i] - stall_deque[j] < HalfBpm(1)
      [] d = "elevated" -> /\ Len(elevated_deque) = 4
                           /\ elevated_deque[4] - elevated_deque[1] >= HalfBpm(20)

\* the fixed subject and body of detector d
OwnAlert(d) ==
    CASE d = "drop" ->
           [subject |-> "HEART RATE DROP ALERT",
            body |-> "HEART RATE DROP ALERT: Heart rate has decreased by 15 bpm or more in the last 2.5 minutes."]
      [] d = "stall" ->
           [subject |-> "HEART RATE STALL ALERT",
            body |-> "HEART RATE STALL ALERT: Heart rate change is less than 1 bpm in the last 10 minutes."]
      [] d = "elevated" ->
           [subject |-> "HEART RATE ELEVATED ALERT",
            body |-> "HEART RATE ELEVATED ALERT: Heart rate has increased by 20 bpm or more in the last 2 minutes."]

\* C12: alerts are not deduplicated: once the check of a detector has run for a
\* reading, the sender was called for that detector and reading exactly once
\* if its window is full and its predicate holds, whatever happened on earlier
\* readings, and not at all otherwise; every call carries the fixed subject
\* and body of the detector that made it.
AlertsNotDeduplicated ==
    /\ \A d \in Detectors(kind) :
          (d \in steps \/ d \in emitted)
              => Cardinality({i \in 1..Len(calls) : calls[i] = OwnAlert(d)})
                     = IF Qualifies(d) THEN 1 ELSE 0
    /\ \A i \in 1..Len(calls) : \E d \in Detectors(kind) : calls[i] = OwnAlert(d)

\* a drop alert for a reading whose predecessor had already triggered one
RepeatedDropAlert ==
    /\ "drop" \in emitted
    /\ calls /= <<>>
    /\ Len(hist) >= 6
    /\ hist[Len(hist) - 1] - hist[Len(hist) - 5] <= HalfBpm(-15)
    /\ hist[Len(hist)] - hist[Len(hist) - 4] <= HalfBpm(-15)

InterruptOnlyBetweenMessages ==
    [][ (pc /= "stopped" /\ pc' = "stopped" /\ stop_cause' = "KeyboardInterrupt")
            => ~ (pc \in InCallback /\ "append" \in steps /\ unacked /= <<>>)
      ]_vars

\* C15: when establishing the broker connection fails, the consumer is stopped
\* with exit code 1 and has performed no broker operation: no channel, no
\* queue_delete or queue_declare, no prefetch limit, no subscription, and the
\* messages that waited in the queue still wait there.
ConnectFailureStopsBeforeSetup ==
    stop_cause = "connect"
        => /\ pc = "stopped"
           /\ exitcode = 1
           /\ ops = {}
           /\ prefetch_count = 0
           /\ ~ subscribed
           /\ (pending_at_exit.unacked \cup pending_at_exit.ready) \subseteq Ids(queue)

\* a failed connection attempt while a message waits in the queue
ConnectFailedWithWaitingMessage ==
    /\ stop_cause = "connect"
    /\ pc = "stopped"
    /\ queue /= <<>>

\* C16: monitor instances are independent: the start-up of one consumer leaves
\* the queue of a concurrently running consumer of another kind as it was,
\* with its subscription and its waiting messages.
InstancesIndependent ==
    [][ (pc = "connected" /\ pc' /= "connected") => peer' = peer ]_vars

\* C17: every call of the alert sender reaches the session teardown and
\* returns to the callback without raising.
SenderTearsDownAndReturns ==
    last_send.called => (last_send.teardown /\ ~ last_send.raised)

\* the ways main stops after pika.BlockingConnection has succeeded
HandledStops == {"setup", "sender", "KeyboardInterrupt"} \cup ParseErrors

\* C18: after a successful broker connection, connection.close() has been
\* called exactly once when main has stopped, and not before; the exit code is
\* 0 after an interrupt and 1 after an error raised during queue setup or
\* consumption.
ConnectionClosedExactlyOnce ==
    /\ closed <= 1
    /\ pc /= "stopped" => closed = 0
    /\ (pc = "stopped" /\ stop_cause \in HandledStops)
           => /\ closed = 1
              /\ exitcode = IF stop_cause = "KeyboardInterrupt" THEN 0 ELSE 1

\* an interrupt inside the callback: exit code 0, connection closed once
InterruptedInCallback ==
    /\ pc = "stopped"
    /\ stop_cause = "KeyboardInterrupt"
    /\ pending_at_exit.unacked /= {}
    /\ closed = 1
    /\ exitcode = 0

Reverse(s) == [i \in 1..Len(s) |-> s[Len(s) + 1 - i]]

Swap(s, i, j) ==
    [k \in 1..Len(s) |-> IF k = i THEN s[j] ELSE IF k = j THEN s[i] ELSE s[k]]

\* reorderings of the window s: sorted either way, reversed, and every
\* exchange of two neighbours
Reorderings(s) ==
    {SortSeq(s, LAMBDA a, b : a < b), SortSeq(s, LAMBDA a, b : a > b), Reverse(s)}
        \cup {Swap(s, i, i + 1) : i \in 1..(Len(s) - 1)}

\* C19: once the stall check has run on a full window, its outcome is the
\* outcome for every reordering of the window; once the drop or the elevated
\* check has run on a full window, its outcome is the outcome for every window
\* with the same oldest and newest reading, whatever lies between them.
OrderSensitivity ==
    /\ (("stall" \in steps \/ "stall" \in emitted) /\ Len(stall_deque) = 20)
           => \A r \in Reorderings(stall_deque) :
                  ("stall" \in emitted) <=> StallPredicate(r)
    /\ (("drop" \in steps \/ "drop" \in emitted) /\ Len(drop_deque) = 5)
           => \A x, y, z \in Values :
                  ("drop" \in emitted)
                      <=> DropPredicate(<<drop_deque[1], x, y, z, drop_deque[5]>>)
    /\ (("elevated" \in steps \/ "elevated" \in emitted) /\ Len(elevated_deque) = 4)
           => \A x, y \in Values :
                  ("elevated" \in emitted)
                      <=> ElevatedPredicate(<<elevated_deque[1], x, y, elevated_deque[4]>>)

\* a drop alert on a window whose reversal, with oldest and newest exchanged,
\* does not qualify
DropAlertLostByReversal ==
    /\ "drop" \in emitted
    /\ Len(drop_deque) = 5
    /\ ~ DropPredicate(Reverse(drop_deque))

\* C20: whichever of producer and consumer starts first, every published
\* reading is waiting in the queue, delivered to the consumer or acknowledged
\* by it, and a consumer inside start_consuming() still has its subscription.
PublishedReadingsReachConsumer ==
    /\ \A i \in 1..npub : i \in Ids(queue) \cup Ids(unacked) \cup acked
    /\ pc \in {"consuming"} \cup InCallback => subscribed

\* C21: when the combined monitor has run its checks on a reading, it has
\* emitted a drop alert exactly if drop_callback alerts on the same readings
\* received since process start, and a stall alert exactly if stall_callback
\* does; and the drop and the stall consumer emit exactly these alerts.
MonitorMatchesSingleConsumers ==
    pc = "ack"
        => /\ kind = "monitor"
                  => /\ "drop" \in emitted <=> drop_callback(hist)
                     /\ "stall" \in emitted <=> stall_callback(hist)
           /\ kind = "drop" => ("drop" \in emitted <=> drop_callback(hist))
           /\ kind = "stall" => ("stall" \in emitted <=> stall_callback(hist))

\* the combined monitor has emitted a stall alert on a reading that
\* stall_callback alerts on, after earlier readings have left the stall deque
MonitorStallAlertAsStallConsumer ==
    /\ kind = "monitor"
    /\ pc = "ack"
    /\ "stall" \in emitted
    /\ stall_callback(hist)
    /\ Len(hist) > 20
    /\ hist[1] /= hist[Len(hist)]

\* C22: in the combined monitor the elevated deque is the last 4 readings of
\* the drop deque, or all of them while there are fewer, and the drop deque
\* is the last 5 readings of the stall deque, or all of them while there are
\* fewer.
WindowsAreSuffixes ==
    kind = "monitor"
        => /\ elevated_deque = LastN(drop_deque, Smaller(Len(drop_deque), 4))
           /\ drop_deque = LastN(stall_deque, Smaller(Len(stall_deque), 5))

\* the three deques of the combined monitor are full, readings have left all
\* of them, and the drop deque holds two different readings
FullWindowsAfterEviction ==
    /\ kind = "monitor"
    /\ Len(stall_deque) = 20
    /\ Len(drop_deque) = 5
    /\ Len(elevated_deque) = 4
    /\ Len(hist) > 20
    /\ drop_deque[1] /= drop_deque[5]

\* C23: in the combined monitor a reading for which a stall alert was emitted
\* has neither a drop alert nor an elevated alert.
StallExcludesDropAndElevated ==
    (kind = "monitor" /\ "stall" \in emitted)
        => ("drop" \notin emitted /\ "elevated" \notin emitted)

\* a drop alert and an elevated alert for the same reading
DropAndElevatedTogether ==
    /\ kind = "monitor"
    /\ "drop" \in emitted
    /\ "elevated" \in emitted
    /\ "stall" \notin emitted

====
